---- MODULE Spec2Model ----
(***************************************************************************)
(* GATT event dispatcher and attribute registry of the bluedroid facade:   *)
(* GattServer::gatts_event_handler, Profile::gatts_event_handler           *)
(* (src/gatt_server/gatts_event_handler.rs), the CCCD callbacks of         *)
(* Descriptor::cccd (src/gatt_server/custom_attributes.rs) and the         *)
(* application of examples/server.rs.                                      *)
(***************************************************************************)
EXTENDS Integers, Sequences, FiniteSets, TLC

VARIABLES
  interface,      \* Profile.interface            : Option<esp_gatt_if_t> per profile
  svcHandle,      \* Service.handle               : Option<u16> per service
  chHandle,       \* Characteristic.attribute_handle
  dsHandle,       \* Descriptor.attribute_handle
  advConfigured,  \* GattServer.advertisement_configured
  connections,    \* GattServer.active_connections
  internalValue,  \* Characteristic.internal_value
  appValue,       \* the application's cell behind its read/write callbacks (VALUE)
  nvs,            \* non-volatile storage namespace "ble": key -> bytes
  aborted,        \* the process has panicked inside a callback
  requests,       \* requests the vendor stack has accepted and not yet answered (FIFO)
  nextHandle,     \* vendor stack: next attribute handle it will assign
  issued,         \* vendor stack: attribute handles reported in successful add events
  fails,          \* vendor stack: number of non-OK statuses it has reported
  lastEvent,      \* the event handled last
  calls,          \* vendor-stack calls made while handling lastEvent
  cbLog,          \* application callbacks invoked while handling lastEvent
  warns,          \* warn! records logged while handling lastEvent
  appPc,          \* application task: number of set_value calls made
  cccdOp,         \* last direct invocation of a CCCD callback and its result
  cccdHist        \* history: last value each peer wrote at each CCCD handle

vars == <<interface, svcHandle, chHandle, dsHandle, advConfigured, connections,
          internalValue, appValue, nvs, aborted, requests, nextHandle, issued,
          fails, lastEvent, calls, cbLog, warns, appPc, cccdOp, cccdHist>>

-----------------------------------------------------------------------------
(* Bounds of the model. *)

\* number of non-OK statuses the vendor stack may report in one run
MaxFail == 1
\* number of set_value calls of the application task
MaxSets == 3

-----------------------------------------------------------------------------
(* Option<T>::None; every handle and interface is a natural number. *)
None == -1

(* Size of the response buffer: [0u8; 600]. *)
RspBufLen == 600

-----------------------------------------------------------------------------
(* The declared tree.  Profile 1 / service 1 is the tree of                 *)
(* examples/server.rs; service 2 and profile 2 add an indicate-only         *)
(* characteristic with a write callback, an indicate+notify characteristic  *)
(* with a read callback and no write callback, and a second profile.        *)

Profiles == <<1, 2>>
Services == {1, 2, 3}
Chars == 1..6
Descs == 1..6

app_id(p) == p

ServicesOf(p) == IF p = 1 THEN <<1, 2>> ELSE <<3>>

CharsOf(s) == CASE s = 1 -> <<1, 2, 3>>
                [] s = 2 -> <<4, 5>>
                [] OTHER -> <<6>>

DescsOf(c) == CASE c = 1 -> <<1>>
                [] c = 2 -> <<2, 3>>
                [] c = 3 -> <<4>>
                [] c = 4 -> <<5>>
                [] c = 5 -> <<6>>
                [] OTHER -> << >>

CharUuid(c) == CASE c = 1 -> "d4e0e0d0"
                 [] c = 2 -> "a3c87500"
                 [] c = 3 -> "3c9a3f00"
                 [] c = 4 -> "1d1c0000"
                 [] c = 5 -> "b07a0000"
                 [] OTHER -> "3c9a3f00"

DescUuid(d) == IF d \in {1, 2, 4} THEN "2901" ELSE "2902"

PropNotify(c) == c \in {2, 5}
PropIndicate(c) == c \in {4, 5}

\* AttributeControl::ResponseByApp(read_callback) when on_read was supplied
ResponseByApp(c) == c \in {3, 5, 6}
\* Characteristic.write_callback is Some
HasWriteCallback(c) == c \in {3, 4, 6}
\* the write callback stores the payload in the cell the read callback returns
StoresOnWrite(c) == c = 3

ServiceOfChar(c) == CHOOSE s \in Services : \E i \in 1..Len(CharsOf(s)) : CharsOf(s)[i] = c
CharOfDesc(d) == CHOOSE c \in Chars : \E i \in 1..Len(DescsOf(c)) : DescsOf(c)[i] = d
ProfileOfService(s) == CHOOSE p \in 1..Len(Profiles) :
                          \E i \in 1..Len(ServicesOf(p)) : ServicesOf(p)[i] = s

\* "Initial value", "Hello, world!" and "Initial value." as bytes
InitialValue == <<73, 110, 105, 116, 105, 97, 108, 32, 118, 97, 108, 117, 101>>
HelloWorld == <<72, 101, 108, 108, 111, 44, 32, 119, 111, 114, 108, 100, 33>>

InitialInternal(c) == CASE c = 1 -> HelloWorld
                        [] c = 2 -> InitialValue \o <<46>>
                        [] OTHER -> << >>

\* format!("Counter: {}", counter) as bytes, for counter in 1..9
CounterValue(n) == <<67, 111, 117, 110, 116, 101, 114, 58, 32, 48 + n>>

-----------------------------------------------------------------------------
(* Records exchanged with the vendor stack. *)

\* one inbound event: the event code, gatts_if and the fields of the param union
\* the handlers read (seq is history: the set_value call that caused the event)
Ev0 == [type |-> "", gatts_if |-> None, status |-> "OK", app_id |-> None,
        service_handle |-> None, attr_handle |-> None, uuid |-> "",
        conn_id |-> None, trans_id |-> None, bda |-> << >>, value |-> << >>,
        need_rsp |-> FALSE, seq |-> 0]

\* one call into the vendor stack (arg names the GattServer field handed to a
\* GAP call; ref is history: the declared service, characteristic or
\* descriptor a create or add request is for)
Call0 == [api |-> "", gatts_if |-> None, conn_id |-> None, trans_id |-> None,
          status |-> "", handle |-> None, service_handle |-> None, uuid |-> "",
          len |-> 0, value |-> << >>, need_confirm |-> FALSE, app_id |-> None,
          arg |-> "", ref |-> 0, seq |-> 0]

\* one application callback invocation
Cb(kind, c, value) == [kind |-> kind, attr |-> c, value |-> value]

-----------------------------------------------------------------------------
(* Helpers: iterator adaptors used by the handlers. *)

\* Iterator::find over a sequence: the first element that is in the set
\* matching of the elements satisfying the closure, or None
Find(seq, matching) ==
  IF \E i \in 1..Len(seq) : seq[i] \in matching
  THEN seq[CHOOSE i \in 1..Len(seq) :
             seq[i] \in matching /\ \A j \in 1..(i - 1) : seq[j] \notin matching]
  ELSE None

RECURSIVE Flatten(_)
\* Iterator::flat_map / nested for loops: concatenation in declaration order
Flatten(seqs) == IF seqs = << >> THEN << >> ELSE Head(seqs) \o Flatten(Tail(seqs))

FlatChars(p) == Flatten([i \in 1..Len(ServicesOf(p)) |-> CharsOf(ServicesOf(p)[i])])
FlatDescs(s) == Flatten([i \in 1..Len(CharsOf(s)) |-> DescsOf(CharsOf(s)[i])])

\* iteration over a HashSet clone: the hasher is seeded at random, so the set
\* may yield its elements in any order; every order, each element once
Iterations(S) ==
  {q \in [1..Cardinality(S) -> S] : \A x \in S : \E i \in 1..Cardinality(S) : q[i] = x}

Abort(st) == [st EXCEPT !.aborted = TRUE]
Warn(st) == [st EXCEPT !.warns = @ + 1]
Emit(st, call) == [st EXCEPT !.calls = Append(@, call)]

-----------------------------------------------------------------------------
(* Registration requests issued by the tree (Profile::register_services,    *)
(* Service::register_characteristics, Characteristic::register_descriptors).*)

register_services(st, p) ==
  [st EXCEPT !.calls = @ \o [i \in 1..Len(ServicesOf(p)) |->
      [Call0 EXCEPT !.api = "create_service", !.gatts_if = st.interface[p],
                    !.ref = ServicesOf(p)[i]]]]

register_characteristics(st, s) ==
  [st EXCEPT !.calls = @ \o [i \in 1..Len(CharsOf(s)) |->
      [Call0 EXCEPT !.api = "add_char", !.service_handle = st.svcHandle[s],
                    !.gatts_if = st.interface[ProfileOfService(s)],
                    !.uuid = CharUuid(CharsOf(s)[i]),
                    !.ref = CharsOf(s)[i]]]]

register_descriptors(st, c) ==
  [st EXCEPT !.calls = @ \o [i \in 1..Len(DescsOf(c)) |->
      [Call0 EXCEPT !.api = "add_char_descr",
                    !.service_handle = st.svcHandle[ServiceOfChar(c)],
                    !.gatts_if = st.interface[ProfileOfService(ServiceOfChar(c))],
                    !.uuid = DescUuid(DescsOf(c)[i]),
                    !.ref = DescsOf(c)[i]]]]

-----------------------------------------------------------------------------
(* Application callbacks (examples/server.rs). *)

\* on_read: return VALUE.read().unwrap().clone(); every read callback of the
\* tree returns the one static VALUE
read_callback(st, c) == st.appValue

\* on_write: *VALUE.write().unwrap() = value
write_callback(st, c, value) ==
  [st EXCEPT !.cbLog = Append(@, Cb("write", c, value)),
             !.appValue = IF StoresOnWrite(c) THEN value ELSE @]

-----------------------------------------------------------------------------
(* Descriptor::cccd: the callbacks of the 0x2902 descriptor.                *)

HexDigits == <<"0", "1", "2", "3", "4", "5", "6", "7",
               "8", "9", "A", "B", "C", "D", "E", "F">>

\* {:02X} / {:04X}: upper-case hexadecimal, zero-padded to width digits
Hex(n, width) == [i \in 1..width |-> HexDigits[((n \div (16 ^ (width - i))) % 16) + 1]]

\* variant: the key is built from the address bytes only
cccd_key_NoHandle(bda, handle) ==
  Hex(bda[3], 2) \o Hex(bda[4], 2) \o Hex(bda[5], 2) \o Hex(bda[6], 2)

\* variant: the key is built from the first four address bytes
cccd_key_FirstBytes(bda, handle) ==
  Hex(bda[1], 2) \o Hex(bda[2], 2) \o Hex(bda[3], 2) \o Hex(bda[4], 2)
    \o <<"-">> \o Hex(handle, 4)

\* format!("{:02X}{:02X}{:02X}{:02X}-{:04X}", bda[2], bda[3], bda[4], bda[5], handle)
\* (bda is indexed from 0 in the source, from 1 here)
cccd_key(bda, handle) ==
  Hex(bda[3], 2) \o Hex(bda[4], 2) \o Hex(bda[5], 2) \o Hex(bda[6], 2)
    \o <<"-">> \o Hex(handle, 4)

\* variant: an absent key reads as notifications enabled
cccd_on_read_DefaultEnabled(store, bda, handle) ==
  LET key == cccd_key(bda, handle)
  IN IF key \in DOMAIN store THEN store[key] ELSE <<1, 0>>

\* on_read: storage.get_raw(&key, &mut buf).map_or_else(|| vec![0, 0], |v| v.0.to_vec())
cccd_on_read(store, bda, handle) ==
  LET key == cccd_key(bda, handle)
  IN IF key \in DOMAIN store THEN store[key] ELSE <<0, 0>>

\* on_write: storage.put_raw(&key, &value)
cccd_on_write(store, value, bda, handle) ==
  LET key == cccd_key(bda, handle)
  IN [k \in DOMAIN store \cup {key} |-> IF k = key THEN value ELSE store[k]]

-----------------------------------------------------------------------------
(* Response construction shared by WRITE_EVT and READ_EVT.                  *)

\* variant: the value is copied to the end of the buffer
PadResponse_RightAligned(value) == [i \in 1..(RspBufLen - Len(value)) |-> 0] \o value

\* let mut response = [0u8; 600]; response[..value.len()].copy_from_slice(&value)
PadResponse(value) == value \o [i \in 1..(RspBufLen - Len(value)) |-> 0]

\* value = read_callback(); pad; esp_ble_gatts_send_response(..., ESP_GATT_OK, rsp).
\* The slice index panics when value.len() > 600.
SendResponse(st, c, ev) ==
  LET value == read_callback(st, c)
      st1 == [st EXCEPT !.cbLog = Append(@, Cb("read", c, value))]
  IN IF Len(value) > RspBufLen
     THEN Abort(st1)
     ELSE Emit(st1, [Call0 EXCEPT !.api = "send_response",
                                  !.gatts_if = ev.gatts_if,
                                  !.conn_id = ev.conn_id,
                                  !.trans_id = ev.trans_id,
                                  !.status = "OK",
                                  !.handle = ev.attr_handle,
                                  !.len = Len(value) % 65536,
                                  !.value = PadResponse(value)])

-----------------------------------------------------------------------------
(* Profile::gatts_event_handler, one operator per match arm.                *)

ProfileRegEvt(st, p, ev) ==
  IF ev.status # "OK" THEN Warn(st) ELSE register_services(st, p)

ProfileCreateEvt(st, p, ev) ==
  LET s == Find(ServicesOf(p), {x \in Services : st.svcHandle[x] = ev.service_handle})
  IN IF s = None THEN Abort(st)
     ELSE LET st1 == [st EXCEPT !.svcHandle[s] = ev.service_handle]
          IN IF ev.status # "OK" THEN Warn(st1)
             ELSE register_characteristics(
                    Emit(st1, [Call0 EXCEPT !.api = "start_service",
                                            !.gatts_if = ev.gatts_if,
                                            !.service_handle = st1.svcHandle[s]]), s)

ProfileStartEvt(st, p, ev) ==
  LET s == Find(ServicesOf(p), {x \in Services : st.svcHandle[x] = ev.service_handle})
  IN IF s = None THEN Abort(st)
     ELSE IF ev.status # "OK" THEN Warn(st) ELSE st

ProfileAddCharEvt(st, p, ev) ==
  LET s == Find(ServicesOf(p), {x \in Services : st.svcHandle[x] = ev.service_handle})
  IN IF s = None THEN Warn(st)
     ELSE LET c == Find(CharsOf(s), {x \in Chars : CharUuid(x) = ev.uuid})
          IN IF c = None THEN Abort(st)
             ELSE IF ev.status # "OK" THEN Warn(st)
             ELSE register_descriptors([st EXCEPT !.chHandle[c] = ev.attr_handle], c)

\* variant: the handle is stored on every descriptor of the service that
\* carries the UUID, not on the first one
ProfileAddCharDescrEvt_EveryMatch(st, p, ev) ==
  LET s == Find(ServicesOf(p), {x \in Services : st.svcHandle[x] = ev.service_handle})
  IN IF s = None THEN Warn(st)
     ELSE IF ev.status # "OK" THEN Warn(st)
     ELSE [st EXCEPT !.dsHandle = [d \in Descs |->
             IF DescUuid(d) = ev.uuid /\ ServiceOfChar(CharOfDesc(d)) = s
             THEN ev.attr_handle ELSE @[d]]]

ProfileAddCharDescrEvt(st, p, ev) ==
  LET s == Find(ServicesOf(p), {x \in Services : st.svcHandle[x] = ev.service_handle})
  IN IF s = None THEN Warn(st)
     ELSE LET d == Find(FlatDescs(s), {x \in Descs : DescUuid(x) = ev.uuid})
          IN IF d = None THEN Abort(st)
             ELSE IF ev.status # "OK" THEN Warn(st)
             ELSE [st EXCEPT !.dsHandle[d] = ev.attr_handle]

\* variant: the handle comparison is missing
ProfileWriteEvt_AnyWritable(st, p, ev) ==
  LET c == Find(FlatChars(p), {x \in Chars : HasWriteCallback(x)})
  IN IF c = None THEN st ELSE write_callback(st, c, ev.value)

\* variant: the response is built before the write callback runs
ProfileWriteEvt_ResponseFirst(st, p, ev) ==
  LET c == Find(FlatChars(p), {x \in Chars : st.chHandle[x] = ev.attr_handle
                                          /\ HasWriteCallback(x)})
  IN IF c = None THEN st
     ELSE LET st1 == IF ev.need_rsp /\ ResponseByApp(c)
                     THEN SendResponse(st, c, ev) ELSE st
          IN write_callback(st1, c, ev.value)

\* the nested loops return at the first characteristic that holds the handle
\* and has a write callback; a match without a write callback only logs
ProfileWriteEvt(st, p, ev) ==
  LET c == Find(FlatChars(p), {x \in Chars : st.chHandle[x] = ev.attr_handle
                                          /\ HasWriteCallback(x)})
  IN IF c = None THEN st
     ELSE LET st1 == write_callback(st, c, ev.value)
          IN IF ev.need_rsp /\ ResponseByApp(c) THEN SendResponse(st1, c, ev) ELSE st1

\* the nested loops return at the first characteristic that holds the handle
\* and is ResponseByApp; descriptors holding the handle are only logged
ProfileReadEvt(st, p, ev) ==
  LET c == Find(FlatChars(p), {x \in Chars : st.chHandle[x] = ev.attr_handle
                                          /\ ResponseByApp(x)})
  IN IF c = None THEN st ELSE SendResponse(st, c, ev)

Profile_gatts_event_handler(st, p, ev) ==
  CASE ev.type = "REG" -> ProfileRegEvt(st, p, ev)
    [] ev.type = "CREATE" -> ProfileCreateEvt(st, p, ev)
    [] ev.type = "START" -> ProfileStartEvt(st, p, ev)
    [] ev.type = "ADD_CHAR" -> ProfileAddCharEvt(st, p, ev)
    [] ev.type = "ADD_CHAR_DESCR" -> ProfileAddCharDescrEvt(st, p, ev)
    [] ev.type = "WRITE" -> ProfileWriteEvt(st, p, ev)
    [] ev.type = "READ" -> ProfileReadEvt(st, p, ev)
    [] OTHER -> Warn(st)

-----------------------------------------------------------------------------
(* GattServer::gatts_event_handler.                                         *)

\* Connection: from the connect/disconnect param; the set is keyed by address
Connection(ev) == [bda |-> ev.bda, id |-> ev.conn_id]

\* variant: records are compared by address and connection id
ServerConnectEvt_KeyedById(st, ev) ==
  [st EXCEPT !.connections = @ \cup {Connection(ev)}]

\* HashSet::insert keeps the element already present
ServerConnectEvt(st, ev) ==
  IF \E k \in st.connections : k.bda = ev.bda THEN st
  ELSE [st EXCEPT !.connections = @ \cup {Connection(ev)}]

\* variant: the peer is removed, advertising is not requested again
ServerDisconnectEvt_NoAdvertising(st, ev) ==
  [st EXCEPT !.connections = {k \in @ : k.bda # ev.bda}]

\* active_connections.remove(&param.into());
\* esp_ble_gap_start_advertising(self.advertisement_parameters)
ServerDisconnectEvt(st, ev) ==
  Emit([st EXCEPT !.connections = {k \in @ : k.bda # ev.bda}],
       [Call0 EXCEPT !.api = "start_advertising",
                     !.arg = "advertisement_parameters"])

\* variant: the advertisement is configured at every successful registration
ServerRegEvt_EveryRegistration(st, ev) ==
  IF ev.status # "OK" THEN st
  ELSE LET p == Find(Profiles, {x \in 1..Len(Profiles) : app_id(x) = ev.app_id})
       IN IF p = None THEN Abort(st)
          ELSE [st EXCEPT
                  !.interface[p] = ev.gatts_if,
                  !.advConfigured = TRUE,
                  !.calls = @ \o
                    <<[Call0 EXCEPT !.api = "set_device_name",
                                    !.arg = "device_name"],
                      [Call0 EXCEPT !.api = "config_adv_data",
                                    !.arg = "advertisement_data"],
                      [Call0 EXCEPT !.api = "config_adv_data",
                                    !.arg = "scan_response_data"]>>]

ServerRegEvt(st, ev) ==
  IF ev.status # "OK" THEN st
  ELSE LET p == Find(Profiles, {x \in 1..Len(Profiles) : app_id(x) = ev.app_id})
       IN IF p = None THEN Abort(st)
          ELSE LET st1 == [st EXCEPT !.interface[p] = ev.gatts_if]
               IN IF st1.advConfigured THEN st1
                  ELSE [st1 EXCEPT
                          !.advConfigured = TRUE,
                          !.calls = @ \o
                            <<[Call0 EXCEPT !.api = "set_device_name",
                                            !.arg = "device_name"],
                              [Call0 EXCEPT !.api = "config_adv_data",
                                            !.arg = "advertisement_data"],
                              [Call0 EXCEPT !.api = "config_adv_data",
                                            !.arg = "scan_response_data"]>>]

\* esp_ble_gatts_send_indicate(gatts_if, conn_id, attr_handle, len, value, need_confirm)
\* once per element of active_connections.clone(), in the order the clone
\* yields them during this call
FanOut(st, c, ev, need_confirm) ==
  LET conns == st.iteration
  IN [st EXCEPT !.calls = @ \o [i \in 1..Len(conns) |->
        [Call0 EXCEPT !.api = "send_indicate",
                      !.gatts_if = ev.gatts_if,
                      !.conn_id = conns[i].id,
                      !.handle = ev.attr_handle,
                      !.len = Len(st.internalValue[c]) % 65536,
                      !.value = st.internalValue[c],
                      !.need_confirm = need_confirm]]]

ServerSetAttrValEvt(st, ev) ==
  LET p == Find(Profiles, {x \in 1..Len(Profiles) : st.interface[x] = ev.gatts_if})
      s == IF p = None THEN None
           ELSE Find(ServicesOf(p), {x \in Services : st.svcHandle[x] = ev.service_handle})
  IN IF s = None THEN Warn(st)
     ELSE LET c == Find(CharsOf(s), {x \in Chars : st.chHandle[x] = ev.attr_handle})
          IN IF c = None THEN Warn(st)
             ELSE IF PropIndicate(c) THEN FanOut(st, c, ev, FALSE)
             ELSE IF PropNotify(c) THEN FanOut(st, c, ev, TRUE)
             ELSE st

RECURSIVE DispatchFrom(_, _, _)
\* self.profiles.iter_mut().for_each(|profile| if profile.interface == Some(gatts_if) ...)
DispatchFrom(st, ev, i) ==
  IF i > Len(Profiles) \/ st.aborted THEN st
  ELSE DispatchFrom(IF st.interface[Profiles[i]] = ev.gatts_if
                    THEN Profile_gatts_event_handler(st, Profiles[i], ev)
                    ELSE st, ev, i + 1)

GattServer_gatts_event_handler(st, ev) ==
  CASE ev.type = "CONNECT" -> ServerConnectEvt(st, ev)
    [] ev.type = "DISCONNECT" -> ServerDisconnectEvt(st, ev)
    [] ev.type = "MTU" -> st
    [] ev.type = "RESPONSE" -> st
    [] ev.type = "REG" -> DispatchFrom(ServerRegEvt(st, ev), ev, 1)
    [] ev.type = "SET_ATTR_VAL" -> DispatchFrom(ServerSetAttrValEvt(st, ev), ev, 1)
    [] OTHER -> DispatchFrom(st, ev, 1)

-----------------------------------------------------------------------------
(* The vendor stack and the peers: the source of the event stream.          *)

\* peer addresses: 11:22:33:44:55:66, AA:BB:33:44:55:66 and 11:22:33:44:55:67
PeerP == <<17, 34, 51, 68, 85, 102>>
PeerQ == <<170, 187, 51, 68, 85, 102>>
PeerR == <<17, 34, 51, 68, 85, 103>>
Peers == {PeerP, PeerQ}

\* connection id and transaction id the stack uses for a peer's requests
ConnId(bda) == IF bda = PeerP THEN 1 ELSE 2
TransId(bda) == 10 + ConnId(bda)

\* payloads of peer writes: [0x01,0x00] and [0xDE,0xAD,0xBE,0xEF]
Payloads == {<<1, 0>>, <<222, 173, 190, 239>>}

\* interface number and service handle the stack assigns
StackGattsIf(app) == app + 2
StackSvcHandle(s) == 40 + s

RequestApis == {"app_register", "create_service", "start_service", "add_char",
                "add_char_descr", "set_attr_value"}
RegistrationApis == RequestApis \ {"set_attr_value"}

NewRequests(cs) == SelectSeq(cs, LAMBDA c : c.api \in RequestApis)

\* no registration request is outstanding: peers and the application task act
RegistrationQuiet == \A i \in 1..Len(requests) : requests[i].api \notin RegistrationApis

\* statuses the stack may report for its next answer
Statuses == {"OK"} \cup (IF fails < MaxFail THEN {"ERROR"} ELSE {})

\* the program state a handler starts from; iteration is the order in which
\* the set of connections yields its elements during the call
St == [interface |-> interface, svcHandle |-> svcHandle, chHandle |-> chHandle,
       dsHandle |-> dsHandle, advConfigured |-> advConfigured,
       connections |-> connections, internalValue |-> internalValue,
       appValue |-> appValue, nvs |-> nvs, aborted |-> aborted,
       iteration |-> << >>, calls |-> << >>, cbLog |-> << >>, warns |-> 0]

\* the stack task runs the handler for ev to completion; rest are the requests
\* still outstanding
Deliver(ev, rest) ==
  \E order \in Iterations(connections) :
  \E st \in {GattServer_gatts_event_handler([St EXCEPT !.iteration = order], ev)} :
     /\ interface' = st.interface
     /\ svcHandle' = st.svcHandle
     /\ chHandle' = st.chHandle
     /\ dsHandle' = st.dsHandle
     /\ advConfigured' = st.advConfigured
     /\ connections' = st.connections
     /\ appValue' = st.appValue
     /\ nvs' = st.nvs
     /\ aborted' = st.aborted
     /\ calls' = st.calls
     /\ cbLog' = st.cbLog
     /\ warns' = st.warns
     /\ lastEvent' = ev
     /\ requests' = rest \o NewRequests(st.calls)
     /\ UNCHANGED <<internalValue, appPc, cccdOp, cccdHist>>

Fail(status) == fails' = IF status = "OK" THEN fails ELSE fails + 1

StackRegEvt ==
  /\ ~aborted /\ requests # << >> /\ Head(requests).api = "app_register"
  /\ \E status \in Statuses :
       /\ Deliver([Ev0 EXCEPT !.type = "REG", !.status = status,
                              !.app_id = Head(requests).app_id,
                              !.gatts_if = StackGattsIf(Head(requests).app_id)],
                  Tail(requests))
       /\ Fail(status)
  /\ UNCHANGED <<nextHandle, issued>>

StackCreateEvt ==
  /\ ~aborted /\ requests # << >> /\ Head(requests).api = "create_service"
  /\ \E status \in Statuses :
       /\ Deliver([Ev0 EXCEPT !.type = "CREATE", !.status = status,
                              !.gatts_if = Head(requests).gatts_if,
                              !.service_handle = StackSvcHandle(Head(requests).ref)],
                  Tail(requests))
       /\ Fail(status)
  /\ UNCHANGED <<nextHandle, issued>>

StackStartEvt ==
  /\ ~aborted /\ requests # << >> /\ Head(requests).api = "start_service"
  /\ \E status \in Statuses :
       /\ Deliver([Ev0 EXCEPT !.type = "START", !.status = status,
                              !.gatts_if = Head(requests).gatts_if,
                              !.service_handle = Head(requests).service_handle],
                  Tail(requests))
       /\ Fail(status)
  /\ UNCHANGED <<nextHandle, issued>>

\* the answer to the add request at the head of the queue: a successful add
\* reports a fresh attribute handle, a failed one reports 0
AddAnswer(type, kind, status) ==
  \E h \in {IF status = "OK" THEN nextHandle ELSE 0} :
     /\ Deliver([Ev0 EXCEPT !.type = type, !.status = status,
                            !.gatts_if = Head(requests).gatts_if,
                            !.service_handle = Head(requests).service_handle,
                            !.uuid = Head(requests).uuid,
                            !.attr_handle = h],
                Tail(requests))
     /\ Fail(status)
     /\ nextHandle' = IF status = "OK" THEN nextHandle + 1 ELSE nextHandle
     /\ issued' = IF status = "OK"
                  THEN issued \cup {[handle |-> h, kind |-> kind,
                                     service_handle |-> Head(requests).service_handle,
                                     gatts_if |-> Head(requests).gatts_if,
                                     uuid |-> Head(requests).uuid]}
                  ELSE issued

StackAddCharEvt ==
  /\ ~aborted /\ requests # << >> /\ Head(requests).api = "add_char"
  /\ \E status \in Statuses : AddAnswer("ADD_CHAR", "char", status)

StackAddCharDescrEvt ==
  /\ ~aborted /\ requests # << >> /\ Head(requests).api = "add_char_descr"
  /\ \E status \in Statuses : AddAnswer("ADD_CHAR_DESCR", "descr", status)

StackSetAttrValEvt ==
  /\ ~aborted /\ requests # << >> /\ Head(requests).api = "set_attr_value"
  /\ \E a \in issued :
       /\ a.handle = Head(requests).handle
       /\ Deliver([Ev0 EXCEPT !.type = "SET_ATTR_VAL",
                              !.gatts_if = a.gatts_if,
                              !.service_handle = a.service_handle,
                              !.attr_handle = a.handle,
                              !.seq = Head(requests).seq],
                  Tail(requests))
  /\ UNCHANGED <<nextHandle, issued, fails>>

\* ESP_GATTS_RESPONSE_EVT follows a response the handler has just sent
StackResponseEvt ==
  /\ ~aborted
  /\ \E i \in 1..Len(calls) :
       /\ calls[i].api = "send_response"
       /\ Deliver([Ev0 EXCEPT !.type = "RESPONSE", !.gatts_if = calls[i].gatts_if,
                              !.attr_handle = calls[i].handle], requests)
  /\ UNCHANGED <<nextHandle, issued, fails>>

PeerConnect ==
  /\ ~aborted /\ RegistrationQuiet
  /\ \E bda \in Peers, p \in 1..Len(Profiles) :
       /\ \A k \in connections : k.bda # bda
       /\ interface[p] # None
       /\ Deliver([Ev0 EXCEPT !.type = "CONNECT", !.gatts_if = interface[p],
                              !.conn_id = ConnId(bda), !.bda = bda], requests)
  /\ UNCHANGED <<nextHandle, issued, fails>>

PeerDisconnect ==
  /\ ~aborted /\ RegistrationQuiet
  /\ \E k \in connections, p \in 1..Len(Profiles) :
       /\ interface[p] # None
       /\ Deliver([Ev0 EXCEPT !.type = "DISCONNECT", !.gatts_if = interface[p],
                              !.conn_id = k.id, !.bda = k.bda], requests)
  /\ UNCHANGED <<nextHandle, issued, fails>>

PeerMtu ==
  /\ ~aborted /\ RegistrationQuiet
  /\ \E k \in connections, p \in 1..Len(Profiles) :
       /\ interface[p] # None
       /\ Deliver([Ev0 EXCEPT !.type = "MTU", !.gatts_if = interface[p],
                              !.conn_id = k.id], requests)
  /\ UNCHANGED <<nextHandle, issued, fails>>

\* the attribute handles a peer may address, each with the interface of the
\* application that owns it: the handles the stack has issued, and handle 0,
\* which the stack never issues
Targets == {[handle |-> a.handle, gatts_if |-> a.gatts_if] : a \in issued}
           \cup {[handle |-> 0, gatts_if |-> interface[p]] :
                   p \in {q \in 1..Len(Profiles) : interface[q] # None}}

PeerRead ==
  /\ ~aborted /\ RegistrationQuiet
  /\ \E k \in connections, t \in Targets :
       Deliver([Ev0 EXCEPT !.type = "READ", !.gatts_if = t.gatts_if,
                           !.attr_handle = t.handle, !.conn_id = k.id,
                           !.trans_id = TransId(k.bda), !.bda = k.bda], requests)
  /\ UNCHANGED <<nextHandle, issued, fails>>

PeerWrite ==
  /\ ~aborted /\ RegistrationQuiet
  /\ \E k \in connections, t \in Targets, v \in Payloads, rsp \in BOOLEAN :
       Deliver([Ev0 EXCEPT !.type = "WRITE", !.gatts_if = t.gatts_if,
                           !.attr_handle = t.handle, !.conn_id = k.id,
                           !.trans_id = TransId(k.bda), !.bda = k.bda,
                           !.value = v, !.need_rsp = rsp], requests)
  /\ UNCHANGED <<nextHandle, issued, fails>>

-----------------------------------------------------------------------------
(* Start of the process.                                                    *)

\* GattServer::start registers every profile's application id with the stack
StartRequests == [i \in 1..Len(Profiles) |->
                    [Call0 EXCEPT !.api = "app_register", !.app_id = app_id(Profiles[i])]]

\* a Service record is Declared (no handle) or Created (the handle the stack
\* knows it by); the CREATE_EVT arm rebinds only a handle that is present
InitMemory ==
  /\ interface = [p \in 1..Len(Profiles) |-> None]
  /\ svcHandle \in [Services -> {None} \cup {StackSvcHandle(s) : s \in Services}]
  /\ \A s \in Services : svcHandle[s] \in {None, StackSvcHandle(s)}
  /\ chHandle = [c \in Chars |-> None]
  /\ dsHandle = [d \in Descs |-> None]
  /\ advConfigured = FALSE
  /\ connections = {}
  /\ internalValue = [c \in Chars |-> InitialInternal(c)]
  /\ appValue = InitialValue
  /\ aborted = FALSE
  /\ requests = StartRequests
  /\ nextHandle = 1
  /\ issued = {}
  /\ fails = 0
  /\ lastEvent = Ev0
  /\ calls = << >>
  /\ cbLog = << >>
  /\ warns = 0
  /\ appPc = 0

Init ==
  /\ InitMemory
  /\ nvs = << >>
  /\ cccdOp = [op |-> "", bda |-> << >>, handle |-> None, value |-> << >>]
  /\ cccdHist = [own |-> << >>, shared |-> << >>, restarted |-> FALSE]

Registration ==
  \/ StackRegEvt
  \/ StackCreateEvt
  \/ StackStartEvt
  \/ StackAddCharEvt
  \/ StackAddCharDescrEvt

Next ==
  \/ Registration
  \/ StackResponseEvt
  \/ PeerConnect
  \/ PeerDisconnect
  \/ PeerMtu
  \/ PeerRead
  \/ PeerWrite

Spec == Init /\ [][Next]_vars

-----------------------------------------------------------------------------
(* The application task (the notifier thread of examples/server.rs).        *)

\* characteristics whose value the application task sets
SetChars == {c \in Chars : PropNotify(c) \/ PropIndicate(c)}

\* Characteristic::set_value: store the value; when the characteristic is
\* registered, hand it to the stack, which answers with SET_ATTR_VAL_EVT
set_value(c, value) ==
  /\ internalValue' = [internalValue EXCEPT ![c] = value]
  /\ requests' = IF chHandle[c] = None THEN requests
                 ELSE Append(requests, [Call0 EXCEPT !.api = "set_attr_value",
                                                     !.handle = chHandle[c],
                                                     !.len = Len(value) % 65536,
                                                     !.value = value,
                                                     !.seq = appPc + 1])

\* counter += 1; characteristic.set_value(format!("Counter: {}", counter));
\* the thread runs from the moment start() has returned, also while
\* registration answers are outstanding
AppSetValue ==
  /\ ~aborted
  /\ appPc < MaxSets
  /\ \E c \in SetChars : set_value(c, CounterValue(appPc + 1))
  /\ appPc' = appPc + 1
  /\ UNCHANGED <<interface, svcHandle, chHandle, dsHandle, advConfigured,
                 connections, appValue, nvs, aborted, nextHandle, issued, fails,
                 lastEvent, calls, cbLog, warns, cccdOp, cccdHist>>

NextNotify ==
  \/ Registration
  \/ PeerConnect
  \/ PeerDisconnect
  \/ AppSetValue
  \/ StackSetAttrValEvt

SpecNotify == Init /\ [][NextNotify]_vars

-----------------------------------------------------------------------------
(* The CCCD callbacks against non-volatile storage, across restarts.        *)

CccdPeers == {PeerP, PeerQ, PeerR}
CccdHandles == {3, 9}
CccdValues == {<<1, 0>>, <<2, 0>>}

\* the last four address bytes of a peer
LowBytes(bda) == SubSeq(bda, 3, 6)

CccdWrite ==
  /\ ~aborted
  /\ \E bda \in CccdPeers, h \in CccdHandles, v \in CccdValues :
       /\ nvs' = cccd_on_write(nvs, v, bda, h)
       /\ cccdOp' = [op |-> "write", bda |-> bda, handle |-> h, value |-> v]
       /\ cccdHist' = [own |-> [k \in DOMAIN cccdHist.own \cup {<<bda, h>>} |->
                                  IF k = <<bda, h>> THEN v ELSE cccdHist.own[k]],
                       shared |-> [k \in DOMAIN cccdHist.shared \cup {<<LowBytes(bda), h>>} |->
                                  IF k = <<LowBytes(bda), h>> THEN v ELSE cccdHist.shared[k]],
                       restarted |-> FALSE]
  /\ UNCHANGED <<interface, svcHandle, chHandle, dsHandle, advConfigured,
                 connections, internalValue, appValue, aborted, requests,
                 nextHandle, issued, fails, lastEvent, calls, cbLog, warns, appPc>>

CccdRead ==
  /\ ~aborted
  /\ \E bda \in CccdPeers, h \in CccdHandles :
       cccdOp' = [op |-> "read", bda |-> bda, handle |-> h,
                  value |-> cccd_on_read(nvs, bda, h)]
  /\ UNCHANGED <<interface, svcHandle, chHandle, dsHandle, advConfigured,
                 connections, internalValue, appValue, nvs, aborted, requests,
                 nextHandle, issued, fails, lastEvent, calls, cbLog, warns, appPc,
                 cccdHist>>

\* the process restarts: memory is as after construction, storage is kept
Restart ==
  /\ interface' = [p \in 1..Len(Profiles) |-> None]
  /\ svcHandle' = [s \in Services |-> None]
  /\ chHandle' = [c \in Chars |-> None]
  /\ dsHandle' = [d \in Descs |-> None]
  /\ advConfigured' = FALSE
  /\ connections' = {}
  /\ internalValue' = [c \in Chars |-> InitialInternal(c)]
  /\ appValue' = InitialValue
  /\ aborted' = FALSE
  /\ requests' = StartRequests
  /\ nextHandle' = 1
  /\ issued' = {}
  /\ fails' = 0
  /\ lastEvent' = Ev0
  /\ calls' = << >>
  /\ cbLog' = << >>
  /\ warns' = 0
  /\ appPc' = 0
  /\ cccdOp' = [op |-> "restart", bda |-> << >>, handle |-> None, value |-> << >>]
  /\ cccdHist' = [cccdHist EXCEPT !.restarted = TRUE]
  /\ UNCHANGED nvs

InitCccd ==
  /\ Init
  /\ \A s \in Services : svcHandle[s] = None

NextCccd ==
  \/ CccdWrite
  \/ CccdRead
  \/ Restart

SpecCccd == InitCccd /\ [][NextCccd]_vars

-----------------------------------------------------------------------------
(* Registration events that name no declared record.                        *)

\* an application id no profile has, a service handle no service holds, and
\* a UUID no characteristic or descriptor has
UnknownAppId == 9
UnknownSvcHandle == 99
UnknownUuid == "ffff"

\* the handles the services of profile p hold
BoundSvcHandles(p) ==
  {svcHandle[ServicesOf(p)[i]] : i \in 1..Len(ServicesOf(p))} \ {None}

\* registration events whose parameters match no declared record: a REG_EVT
\* with an unknown application id; for a registered interface, a CREATE_EVT
\* or START_EVT with an unknown service handle, and an ADD_CHAR_EVT or
\* ADD_CHAR_DESCR_EVT with an unknown service handle or, in a known service,
\* an unknown UUID
StrayEvents ==
  {[Ev0 EXCEPT !.type = "REG", !.status = status, !.app_id = UnknownAppId,
               !.gatts_if = StackGattsIf(UnknownAppId)] :
     status \in {"OK", "ERROR"}}
  \cup
  {[Ev0 EXCEPT !.type = x[1], !.status = x[2], !.gatts_if = interface[x[3]],
               !.service_handle = UnknownSvcHandle] :
     x \in {"CREATE", "START"} \X {"OK", "ERROR"}
           \X {q \in 1..Len(Profiles) : interface[q] # None}}
  \cup
  UNION {{[Ev0 EXCEPT !.type = x[1], !.status = x[2], !.gatts_if = interface[x[3]],
                      !.service_handle = hu[1], !.uuid = hu[2], !.attr_handle = 0] :
            hu \in ({UnknownSvcHandle}
                      \X {UnknownUuid, IF x[1] = "ADD_CHAR" THEN CharUuid(1)
                                                            ELSE DescUuid(1)})
                   \cup (BoundSvcHandles(x[3]) \X {UnknownUuid})} :
     x \in {"ADD_CHAR", "ADD_CHAR_DESCR"} \X {"OK", "ERROR"}
           \X {q \in 1..Len(Profiles) : interface[q] # None}}

\* the stack delivers a registration event that answers no request
StackStrayEvt ==
  /\ ~aborted
  /\ \E ev \in StrayEvents : Deliver(ev, requests)
  /\ UNCHANGED <<nextHandle, issued, fails>>

NextStray ==
  \/ Registration
  \/ StackStrayEvt

SpecStray == Init /\ [][NextStray]_vars

-----------------------------------------------------------------------------
(* Connect and disconnect events in any order.                              *)

\* connection ids the stack hands out
ConnIds == {1, 2}

\* the interface connect and disconnect events are reported on: that of the
\* first registered profile
GapInterfaces ==
  {interface[p] : p \in {q \in 1..Len(Profiles) :
                           /\ interface[q] # None
                           /\ \A r \in 1..(q - 1) : interface[r] = None}}

\* a peer connects; the stack may report a peer that is still in the table
\* (its disconnect event was never delivered) under a new connection id
AnyConnect ==
  /\ ~aborted /\ RegistrationQuiet
  /\ \E bda \in Peers, id \in ConnIds, gatts_if \in GapInterfaces :
       /\ Deliver([Ev0 EXCEPT !.type = "CONNECT", !.gatts_if = gatts_if,
                              !.conn_id = id, !.bda = bda], requests)
  /\ UNCHANGED <<nextHandle, issued, fails>>

\* a peer disconnects, in the table or not
AnyDisconnect ==
  /\ ~aborted /\ RegistrationQuiet
  /\ \E bda \in Peers, gatts_if \in GapInterfaces :
       Deliver([Ev0 EXCEPT !.type = "DISCONNECT", !.gatts_if = gatts_if,
                           !.conn_id = ConnId(bda), !.bda = bda], requests)
  /\ UNCHANGED <<nextHandle, issued, fails>>

\* the notifier thread of examples/server.rs: it sets the value of the
\* notifying characteristic only, from the moment start() has returned
AppSetCounter ==
  /\ ~aborted
  /\ appPc < MaxSets
  /\ set_value(2, CounterValue(appPc + 1))
  /\ appPc' = appPc + 1
  /\ UNCHANGED <<interface, svcHandle, chHandle, dsHandle, advConfigured,
                 connections, appValue, nvs, aborted, nextHandle, issued, fails,
                 lastEvent, calls, cbLog, warns, cccdOp, cccdHist>>

\* every service record holds the handle the stack knows it by
InitConn ==
  /\ Init
  /\ \A s \in Services : svcHandle[s] = StackSvcHandle(s)

NextConn ==
  \/ Registration
  \/ AnyConnect
  \/ AnyDisconnect
  \/ PeerMtu
  \/ AppSetCounter
  \/ StackSetAttrValEvt

SpecConn == InitConn /\ [][NextConn]_vars

-----------------------------------------------------------------------------
(* Read callbacks that return more than the response buffer holds.          *)

\* a payload one byte longer than the response buffer
LongValue == [i \in 1..(RspBufLen + 1) |-> 171]

\* a peer writes the long payload: param.value, param.len = 601
PeerWriteLong ==
  /\ ~aborted /\ RegistrationQuiet
  /\ \E k \in connections, t \in Targets, rsp \in BOOLEAN :
       Deliver([Ev0 EXCEPT !.type = "WRITE", !.gatts_if = t.gatts_if,
                           !.attr_handle = t.handle, !.conn_id = k.id,
                           !.trans_id = TransId(k.bda), !.bda = k.bda,
                           !.value = LongValue, !.need_rsp = rsp], requests)
  /\ UNCHANGED <<nextHandle, issued, fails>>

NextOversized ==
  \/ Registration
  \/ PeerConnect
  \/ PeerRead
  \/ PeerWrite
  \/ PeerWriteLong

SpecOversized == InitConn /\ [][NextOversized]_vars

-----------------------------------------------------------------------------
(* Properties.                                                              *)

\* the attribute records of the tree and the handle each holds
Attrs == {<<"char", c>> : c \in Chars} \cup {<<"descr", d>> : d \in Descs}
HandleOf(a) == IF a[1] = "char" THEN chHandle[a[2]] ELSE dsHandle[a[2]]
ServiceOfAttr(a) == IF a[1] = "char" THEN ServiceOfChar(a[2])
                    ELSE ServiceOfChar(CharOfDesc(a[2]))

WriteCalls == SelectSeq(cbLog, LAMBDA e : e.kind = "write")
Frames == SelectSeq(calls, LAMBDA e : e.api = "send_indicate")
Responses == SelectSeq(calls, LAMBDA e : e.api = "send_response")

\* C1: once an add-characteristic-complete or add-descriptor-complete event
\* has stored a handle on an attribute, no later step changes that handle.
C1_HandleStability ==
  [][/\ \A c \in Chars : chHandle[c] # None => chHandle'[c] = chHandle[c]
     /\ \A d \in Descs : dsHandle[d] # None => dsHandle'[d] = dsHandle[d]]_vars

\* C2: every attribute handle the stack has reported in a successful add
\* event is, in every later state, the handle of exactly one attribute record
\* of the service named by the event's service_handle.
C2_HandleToRecord ==
  \A a \in issued :
    Cardinality({r \in Attrs : /\ HandleOf(r) = a.handle
                               /\ svcHandle[ServiceOfAttr(r)] = a.service_handle}) = 1

\* C3: the stack never reporting a handle twice, no two attribute records
\* hold the same handle, in every state and so in every state after
\* registration.
C3_UniqueHandles ==
  \A a \in Attrs, b \in Attrs :
    (a # b /\ HandleOf(a) # None) => HandleOf(a) # HandleOf(b)

\* C3 witness: registration is over, every characteristic and three
\* descriptors hold a handle.
C3_Witness ==
  /\ ~aborted /\ requests = << >>
  /\ \A c \in Chars : chHandle[c] # None
  /\ Cardinality({d \in Descs : dsHandle[d] # None}) >= 3

\* C4: a write event at the handle of a characteristic C that has a write
\* callback invokes C's write callback exactly once, with the event's payload,
\* and no other write callback.
C4_WriteRouting ==
  \A c \in Chars :
    (/\ lastEvent.type = "WRITE"
     /\ HasWriteCallback(c)
     /\ chHandle[c] = lastEvent.attr_handle)
    => WriteCalls = <<Cb("write", c, lastEvent.value)>>

\* C4 witness: a four-byte write at the handle of a characteristic of
\* service 2 that has a write callback has been handled and the callback ran.
C4_Witness ==
  /\ lastEvent.type = "WRITE"
  /\ lastEvent.attr_handle = chHandle[4]
  /\ Len(lastEvent.value) = 4
  /\ WriteCalls # << >>

\* C5: a read request at the handle of an application-callback characteristic
\* whose read callback returns N <= 600 bytes is answered by exactly one
\* response, status OK, with the request's connection and transaction id, the
\* returned bytes first, zeros after them, and length N.
C5_ReadResponse ==
  \A c \in Chars :
    (/\ lastEvent.type = "READ"
     /\ ResponseByApp(c)
     /\ chHandle[c] = lastEvent.attr_handle
     /\ Len(appValue) <= RspBufLen)
    => /\ Len(calls) = 1
       /\ calls[1].api = "send_response"
       /\ calls[1].status = "OK"
       /\ calls[1].conn_id = lastEvent.conn_id
       /\ calls[1].trans_id = lastEvent.trans_id
       /\ Len(calls[1].value) = RspBufLen
       /\ SubSeq(calls[1].value, 1, Len(appValue)) = appValue
       /\ \A i \in (Len(appValue) + 1)..RspBufLen : calls[1].value[i] = 0
       /\ calls[1].len = Len(appValue)

\* C5 witness: a read at the writable characteristic's handle has been
\* answered after a peer stored four bytes in it.
C5_Witness ==
  /\ lastEvent.type = "READ"
  /\ lastEvent.attr_handle = chHandle[3]
  /\ Len(appValue) = 4
  /\ Len(Responses) = 1

\* C6: a set-attribute-value event for a notify-only characteristic, handled
\* while K connections are active, emits exactly K frames, one per active
\* connection, each with need_confirm false.
C6_NotifyFanOut ==
  \A c \in Chars :
    (/\ lastEvent.type = "SET_ATTR_VAL"
     /\ chHandle[c] = lastEvent.attr_handle
     /\ PropNotify(c) /\ ~PropIndicate(c))
    => /\ Len(Frames) = Cardinality(connections)
       /\ \A k \in connections : \E i \in 1..Len(Frames) : Frames[i].conn_id = k.id
       /\ \A i \in 1..Len(Frames) : Frames[i].need_confirm = FALSE

\* C7: a set-attribute-value event for a characteristic with indicate set,
\* handled while K connections are active, emits exactly K frames, one per
\* active connection, each with need_confirm true.
C7_IndicateFanOut ==
  \A c \in Chars :
    (/\ lastEvent.type = "SET_ATTR_VAL"
     /\ chHandle[c] = lastEvent.attr_handle
     /\ PropIndicate(c))
    => /\ Len(Frames) = Cardinality(connections)
       /\ \A k \in connections : \E i \in 1..Len(Frames) : Frames[i].conn_id = k.id
       /\ \A i \in 1..Len(Frames) : Frames[i].need_confirm = TRUE

\* C8: with one peer connected, the frame sent for the n-th set_value call on
\* the notify characteristic carries the value of that n-th call, never the
\* value of a later call.
C8_NotificationPayload ==
  (/\ lastEvent.type = "SET_ATTR_VAL"
   /\ lastEvent.attr_handle = chHandle[2]
   /\ Cardinality(connections) = 1)
  => /\ Len(Frames) = 1
     /\ Frames[1].value = CounterValue(lastEvent.seq)

\* C9 as claimed: a CCCD read by peer P at handle h returns the value P wrote
\* last at h, restart or not.
C9_RoundTripOwnWrite ==
  (cccdOp.op = "read" /\ <<cccdOp.bda, cccdOp.handle>> \in DOMAIN cccdHist.own)
  => cccdOp.value = cccdHist.own[<<cccdOp.bda, cccdOp.handle>>]

\* C9 amended: a CCCD read by peer P at handle h returns the value written
\* last at h by P or by a peer whose last four address bytes equal P's,
\* restart or not.
C9_RoundTripSharedKey ==
  (cccdOp.op = "read"
   /\ <<LowBytes(cccdOp.bda), cccdOp.handle>> \in DOMAIN cccdHist.shared)
  => cccdOp.value = cccdHist.shared[<<LowBytes(cccdOp.bda), cccdOp.handle>>]

\* C9 witness: peer P reads [0x01, 0x00] back at a handle after a restart
\* that followed every write.
C9_Witness ==
  /\ cccdOp.op = "read" /\ cccdOp.bda = PeerP /\ cccdOp.value = <<1, 0>>
  /\ cccdHist.restarted
  /\ <<PeerP, cccdOp.handle>> \in DOMAIN cccdHist.own
  /\ cccdHist.own[<<PeerP, cccdOp.handle>>] = <<1, 0>>

\* C10: after a peer's two-byte write request at the handle of a 0x2902
\* descriptor has been handled, the two bytes are stored under the peer's
\* key: a CCCD read for that peer and handle returns them.
C10_CccdWriteRouted ==
  \A d \in Descs :
    (/\ lastEvent.type = "WRITE"
     /\ DescUuid(d) = "2902"
     /\ dsHandle[d] = lastEvent.attr_handle
     /\ Len(lastEvent.value) = 2)
    => cccd_on_read(nvs, lastEvent.bda, lastEvent.attr_handle) = lastEvent.value

\* C11: every disconnect event removes the disconnecting peer, and no other,
\* from the connection table and issues exactly one start-advertising request
\* with the stored advertisement parameters; every connect event of a peer
\* that is not in the table, also after earlier disconnects, inserts it.
C11_DisconnectRestart ==
  [][/\ lastEvent'.type = "DISCONNECT" =>
          /\ connections' = {k \in connections : k.bda # lastEvent'.bda}
          /\ \A k \in connections' : k.bda # lastEvent'.bda
          /\ calls' = <<[Call0 EXCEPT !.api = "start_advertising",
                                      !.arg = "advertisement_parameters"]>>
          /\ ~aborted'
     /\ lastEvent'.type = "CONNECT" =>
          /\ \E k \in connections' : k.bda = lastEvent'.bda
          /\ connections \subseteq connections']_vars

\* C11 witness: one of two connected peers has disconnected; it is out of the
\* table, the other is still in it, and advertising was requested again.
C11_Witness ==
  /\ lastEvent.type = "DISCONNECT"
  /\ lastEvent.bda = PeerP
  /\ \A k \in connections : k.bda # PeerP
  /\ \E k \in connections : k.bda = PeerQ
  /\ Len(calls) = 1 /\ calls[1].api = "start_advertising"

\* the GAP calls of a handler run that hand over the named server field
GapCalls(cs, api, arg) == SelectSeq(cs, LAMBDA e : e.api = api /\ e.arg = arg)

\* C12: the device name, the advertisement payload and the scan-response
\* payload are each configured exactly once, by the first registration event
\* with success status (no profile has an interface before it), and by no
\* failed registration event, no later one and no other event.
C12_AdvertisementOnce ==
  [][/\ Len(GapCalls(calls', "set_device_name", "device_name"))
          = (IF lastEvent'.type = "REG" /\ lastEvent'.status = "OK"
                /\ \A p \in 1..Len(Profiles) : interface[p] = None
             THEN 1 ELSE 0)
     /\ Len(GapCalls(calls', "config_adv_data", "advertisement_data"))
          = Len(GapCalls(calls', "set_device_name", "device_name"))
     /\ Len(GapCalls(calls', "config_adv_data", "scan_response_data"))
          = Len(GapCalls(calls', "set_device_name", "device_name"))
     /\ Len(SelectSeq(calls', LAMBDA e : e.api \in {"set_device_name",
                                                    "config_adv_data"}))
          = 3 * Len(GapCalls(calls', "set_device_name", "device_name"))
     /\ advConfigured' = (\E p \in 1..Len(Profiles) : interface'[p] # None)]_vars

\* C12 witness: the first registration event failed and configured nothing;
\* the second, for the other profile, succeeded and configured the three.
C12_Witness ==
  /\ lastEvent.type = "REG" /\ lastEvent.status = "OK" /\ lastEvent.app_id = 2
  /\ fails = 1 /\ interface[1] = None /\ interface[2] # None
  /\ Len(GapCalls(calls, "set_device_name", "device_name")) = 1
  /\ Len(GapCalls(calls, "config_adv_data", "advertisement_data")) = 1
  /\ Len(GapCalls(calls, "config_adv_data", "scan_response_data")) = 1

\* C13: a write event whose handle is the handle of no attribute logs a
\* warning, invokes no callback, sends no response and does not abort.
C13_UnknownHandleWrite ==
  (/\ lastEvent.type = "WRITE"
   /\ \A a \in Attrs : HandleOf(a) # lastEvent.attr_handle)
  => /\ warns >= 1
     /\ cbLog = << >>
     /\ calls = << >>
     /\ ~aborted

\* the one response of a handler run carries exactly the bytes of value
Answers(cs, value) ==
  /\ Len(SelectSeq(cs, LAMBDA e : e.api = "send_response")) = 1
  /\ \E i \in 1..Len(cs) :
       /\ cs[i].api = "send_response"
       /\ cs[i].status = "OK"
       /\ cs[i].len = Len(value)
       /\ SubSeq(cs[i].value, 1, Len(value)) = value

\* C14: for a characteristic whose write callback stores the payload and
\* whose read callback returns the stored bytes: a write with payload B makes
\* B the stored value; no step other than a write at its handle changes the
\* stored value; a read at its handle is answered with the stored value, so
\* every read after the write, with no write between, is answered with B.
\* When the write requested a response, the write callback runs before the
\* read callback, and the write response carries B.
C14_WritableRoundTrip ==
  [][\A c \in Chars :
       (StoresOnWrite(c) /\ ResponseByApp(c) /\ chHandle[c] # None) =>
         IF lastEvent'.type = "WRITE" /\ lastEvent'.attr_handle = chHandle[c]
         THEN /\ appValue' = lastEvent'.value
              /\ lastEvent'.need_rsp =>
                   /\ cbLog' = <<Cb("write", c, lastEvent'.value),
                                 Cb("read", c, lastEvent'.value)>>
                   /\ Answers(calls', lastEvent'.value)
         ELSE /\ appValue' = appValue
              /\ (lastEvent'.type = "READ" /\ lastEvent'.attr_handle = chHandle[c])
                   => Answers(calls', appValue)]_vars

\* C14 witness: a read at the writable characteristic's handle has been
\* answered with the four bytes [0xDE,0xAD,0xBE,0xEF] a peer wrote before.
C14_Witness ==
  /\ lastEvent.type = "READ"
  /\ lastEvent.attr_handle = chHandle[3]
  /\ Answers(calls, <<222, 173, 190, 239>>)

\* registration has come to its end: the process has aborted, or no
\* registration request is outstanding
RegistrationEnded == aborted \/ RegistrationQuiet

\* C15: when the stack has answered every registration request with success
\* and a fresh handle, registration ends with every service holding its
\* handle and every characteristic and descriptor holding an assigned handle.
C15_RegistrationCompletes ==
  (RegistrationEnded /\ fails = 0)
  => /\ ~aborted
     /\ \A s \in Services : svcHandle[s] = StackSvcHandle(s)
     /\ \A a \in Attrs : HandleOf(a) # None

\* C16: a created event with success status that carries the handle h the
\* stack gave service s does not abort, leaves the handle of s equal to h,
\* and issues exactly one start-service request for h and one
\* add-characteristic request per characteristic of s; this also when s had
\* no handle before the event.
C16_ServiceCreated ==
  \A s \in Services :
    (/\ lastEvent.type = "CREATE"
     /\ lastEvent.status = "OK"
     /\ lastEvent.service_handle = StackSvcHandle(s))
    => /\ ~aborted
       /\ svcHandle[s] = lastEvent.service_handle
       /\ Len(SelectSeq(calls, LAMBDA e : e.api = "start_service")) = 1
       /\ \E i \in 1..Len(calls) : /\ calls[i].api = "start_service"
                                   /\ calls[i].service_handle = lastEvent.service_handle
       /\ Len(SelectSeq(calls, LAMBDA e : e.api = "add_char")) = Len(CharsOf(s))
       /\ \A j \in 1..Len(CharsOf(s)) :
            \E i \in 1..Len(calls) : /\ calls[i].api = "add_char"
                                     /\ calls[i].uuid = CharUuid(CharsOf(s)[j])

\* C17: a read event at the assigned handle of a 0x2902 descriptor, which has
\* a read callback, is answered by exactly one response with status OK that
\* carries the bytes the descriptor's read callback returns for the peer.
C17_DescriptorRead ==
  \A d \in Descs :
    (/\ lastEvent.type = "READ"
     /\ DescUuid(d) = "2902"
     /\ dsHandle[d] = lastEvent.attr_handle)
    => Answers(calls, cccd_on_read(nvs, lastEvent.bda, lastEvent.attr_handle))

\* C18: for a write event at the handle of a characteristic, with or without
\* a write callback, a response is sent if and only if the peer requested
\* one and the characteristic is under application-callback control; it is
\* then exactly one response, status OK, carrying the read callback's value.
C18_WriteResponseCondition ==
  \A c \in Chars :
    (lastEvent.type = "WRITE" /\ chHandle[c] = lastEvent.attr_handle)
    => IF lastEvent.need_rsp /\ ResponseByApp(c)
       THEN Answers(calls, appValue)
       ELSE Responses = << >>

\* the lookups profile p makes for a registration event find no record
LookupMisses(p, ev) ==
  LET s == Find(ServicesOf(p), {x \in Services : svcHandle[x] = ev.service_handle})
  IN CASE ev.type \in {"CREATE", "START"} -> s = None
       [] ev.type = "ADD_CHAR" ->
            \/ s = None
            \/ \A i \in 1..Len(CharsOf(s)) : CharUuid(CharsOf(s)[i]) # ev.uuid
       [] ev.type = "ADD_CHAR_DESCR" ->
            \/ s = None
            \/ \A i \in 1..Len(FlatDescs(s)) : DescUuid(FlatDescs(s)[i]) # ev.uuid
       [] OTHER -> FALSE

\* C19: a registration event whose lookup finds no declared record (a
\* successful REG_EVT with an unknown application id; a CREATE, START,
\* ADD_CHAR or ADD_CHAR_DESCR event with an unknown service handle; an
\* ADD_CHAR or ADD_CHAR_DESCR event with a UUID of no characteristic or
\* descriptor of the service) aborts the process.
C19_LookupFailureAborts ==
  /\ (/\ lastEvent.type = "REG" /\ lastEvent.status = "OK"
      /\ \A p \in 1..Len(Profiles) : app_id(p) # lastEvent.app_id) => aborted
  /\ \A p \in 1..Len(Profiles) :
       (interface[p] = lastEvent.gatts_if /\ LookupMisses(p, lastEvent)) => aborted

\* C20: an add-characteristic-complete event with a non-OK status stores no
\* handle and issues no add-descriptor request; an add-descriptor-complete
\* event with a non-OK status stores no handle; neither aborts. A later
\* successful add event for a sibling attribute is still handled and gives
\* that attribute its handle: the event that answers the add request of a
\* characteristic or descriptor leaves the reported handle on that record.
C20_FailurePolicy ==
  [][/\ (lastEvent'.type \in {"ADD_CHAR", "ADD_CHAR_DESCR"}
         /\ lastEvent'.status # "OK")
        => /\ chHandle' = chHandle
           /\ dsHandle' = dsHandle
           /\ NewRequests(calls') = << >>
           /\ ~aborted'
     /\ (lastEvent'.type = "ADD_CHAR" /\ lastEvent'.status = "OK")
        => /\ ~aborted'
           /\ chHandle'[Head(requests).ref] = lastEvent'.attr_handle
     /\ (lastEvent'.type = "ADD_CHAR_DESCR" /\ lastEvent'.status = "OK")
        => /\ ~aborted'
           /\ dsHandle'[Head(requests).ref] = lastEvent'.attr_handle]_vars

\* C21: the connection table is empty at the start; a connect event leaves
\* exactly one record for its peer address in the table, a disconnect event
\* leaves none, and both leave the records of every other address as they
\* were; no other event changes the table, a set-attribute-value fan-out
\* included. So the table always holds exactly one record for each address
\* whose most recent connect/disconnect event is a connect, and no other.
C21_ConnectionTable ==
  /\ connections = {}
  /\ [][/\ lastEvent'.type = "CONNECT" =>
             /\ Cardinality({k \in connections' : k.bda = lastEvent'.bda}) = 1
             /\ {k \in connections' : k.bda # lastEvent'.bda}
                  = {k \in connections : k.bda # lastEvent'.bda}
        /\ lastEvent'.type = "DISCONNECT" =>
             connections' = {k \in connections : k.bda # lastEvent'.bda}
        /\ lastEvent'.type \notin {"CONNECT", "DISCONNECT"} =>
             connections' = connections]_vars

\* C21 witness: a peer that is in the table under connection id 1 has been
\* reported connected again under another id while a second peer is
\* connected; the table holds one record for each of the two addresses.
C21_Witness ==
  /\ lastEvent.type = "CONNECT" /\ lastEvent.bda = PeerP /\ lastEvent.conn_id # 1
  /\ \E k \in connections : k.bda = PeerP /\ k.id = 1
  /\ \E k \in connections : k.bda = PeerQ
  /\ Cardinality(connections) = 2

\* C22 as claimed: a step changes the value a CCCD read of peer Q at handle
\* h2 returns only if the step is a CCCD write by the peer with Q's six-byte
\* address at h2.
C22_RecordPerAddress ==
  [][\A q \in CccdPeers, h2 \in CccdHandles :
       cccd_on_read(nvs', q, h2) # cccd_on_read(nvs, q, h2)
       => /\ cccdOp'.op = "write"
          /\ cccdOp'.bda = q
          /\ cccdOp'.handle = h2]_vars

\* C22 amended: a step changes the value a CCCD read of peer Q at handle h2
\* returns only if the step is a CCCD write at h2 by a peer whose last four
\* address bytes equal Q's; peers that differ in one of these bytes never
\* share a record.
C22_RecordPerLowBytes ==
  [][\A q \in CccdPeers, h2 \in CccdHandles :
       cccd_on_read(nvs', q, h2) # cccd_on_read(nvs, q, h2)
       => /\ cccdOp'.op = "write"
          /\ LowBytes(cccdOp'.bda) = LowBytes(q)
          /\ cccdOp'.handle = h2]_vars

\* C22 witness: peer P has just written [0x01, 0x00] at handle 3; a read of
\* the peer sharing P's last four bytes returns it at handle 3, a read of the
\* third peer at handle 3 and a read of P at handle 9 return other values.
C22_Witness ==
  /\ cccdOp.op = "write" /\ cccdOp.bda = PeerP /\ cccdOp.handle = 3
  /\ cccdOp.value = <<1, 0>>
  /\ cccd_on_read(nvs, PeerQ, 3) = <<1, 0>>
  /\ cccd_on_read(nvs, PeerR, 3) = <<2, 0>>
  /\ cccd_on_read(nvs, PeerP, 9) = <<0, 0>>

\* C23: a CCCD read for a peer and handle under whose key nothing has ever
\* been written, before or after a restart, returns [0x00, 0x00], creates no
\* record in the storage and does not abort.
C23_CccdDefault ==
  [][(/\ cccdOp'.op = "read"
      /\ <<LowBytes(cccdOp'.bda), cccdOp'.handle>> \notin DOMAIN cccdHist'.shared)
     => /\ cccdOp'.value = <<0, 0>>
        /\ nvs' = nvs
        /\ ~aborted']_vars

\* C23 witness: the third peer reads [0x00, 0x00] at handle 3, where only
\* the first peer has written, after having written itself at handle 9.
C23_Witness ==
  /\ cccdOp.op = "read" /\ cccdOp.bda = PeerR /\ cccdOp.handle = 3
  /\ cccdOp.value = <<0, 0>>
  /\ DOMAIN cccdHist.own = {<<PeerP, 3>>, <<PeerR, 9>>}
  /\ DOMAIN nvs = {cccd_key(PeerP, 3), cccd_key(PeerR, 9)}

\* C24: handling a read request, or a write request that needs a response,
\* at the handle of an application-callback characteristic whose read
\* callback returns more than 600 bytes aborts the process, and no response
\* is sent.
C24_OversizedValue ==
  \A c \in Chars :
    (/\ chHandle[c] = lastEvent.attr_handle
     /\ ResponseByApp(c)
     /\ Len(appValue) > RspBufLen
     /\ \/ lastEvent.type = "READ"
        \/ lastEvent.type = "WRITE" /\ lastEvent.need_rsp)
    => /\ aborted
       /\ Responses = << >>

====
